---- MODULE Spec2Model ----
(***************************************************************************)
(* A model of src/workbench/tab/mod.rs of nbtworkbench: the file formats   *)
(* of a tab (NbtFileFormat, ChunkFileFormat), the format detection of      *)
(* Tab::parse_raw, saving and reloading a tab, and FilePath.               *)
(***************************************************************************)
EXTENDS Integers, Sequences, FiniteSets, TLC

VARIABLES
    \* SpecFormat: a walk over NbtFileFormat by cycle / rev_cycle
    fstart,     \* the variant the walk started from
    fcur,       \* the variant the walk has reached
    fops,       \* the operations applied so far, oldest first
    fseen,      \* the variants passed through, fstart first (fcur excluded)
    \* SpecPath: one FilePath object
    fp,         \* the FilePath {path, cached_name, cached_path_str}, or NoFilePath
    fpcall,     \* the last call on it: [op, result]
    \* SpecParse: one call of Tab::parse_raw
    pin,        \* its arguments [path, buf]
    pout,       \* what it returned, with the decoders it called; NotRun before
    \* SpecCodec: a document saved in a format and loaded again
    cdoc,       \* the document
    cfmt,       \* the format it is saved in
    cbytes,     \* Some(the bytes written), None before the save
    cdec,       \* Some(what the decoder of cfmt made of the bytes), None before
    \* Spec: one tab of the editor
    tab,        \* struct Tab: root, path, format, history, bookmarks, ...
    call        \* the last call on the tab: [op, result, events, ...]

fmtVars == <<fstart, fcur, fops, fseen>>
pathVars == <<fp, fpcall>>
parseVars == <<pin, pout>>
codecVars == <<cdoc, cfmt, cbytes, cdec>>
tabVars == <<tab, call>>

vars == <<fstart, fcur, fops, fseen, fp, fpcall, pin, pout, cdoc, cfmt, cbytes, cdec,
          tab, call>>

-----------------------------------------------------------------------------
(* Option and Result *)

None == [some |-> FALSE]
Some(x) == [some |-> TRUE, val |-> x]
Ok(v) == [ok |-> TRUE, val |-> v]
Err(e) == [ok |-> FALSE, err |-> e]

\* the sequences over S of length at most n
RECURSIVE SeqsUpTo(_, _)
SeqsUpTo(S, n) ==
    IF n = 0 THEN {<<>>}
    ELSE LET shorter == SeqsUpTo(S, n - 1)
         IN  shorter \cup {Append(s, x) : s \in {t \in shorter : Len(t) = n - 1}, x \in S}

-----------------------------------------------------------------------------
(* enum NbtFileFormat *)

NbtFileFormat ==
    {"Nbt", "Gzip", "Zlib", "Snbt", "LittleEndianNbt", "LittleEndianHeaderNbt", "Mca"}

\* cycle following the declaration order of the enum instead of the match arms
cycle_decl_order(self) ==
    CASE self = "Nbt" -> "Gzip"
      [] self = "Gzip" -> "Zlib"
      [] self = "Zlib" -> "Snbt"
      [] self = "Snbt" -> "LittleEndianNbt"
      [] self = "LittleEndianNbt" -> "LittleEndianHeaderNbt"
      [] self = "LittleEndianHeaderNbt" -> "Nbt"
      [] self = "Mca" -> "Mca"

cycle(self) ==
    CASE self = "Nbt" -> "Gzip"
      [] self = "Gzip" -> "Zlib"
      [] self = "Zlib" -> "LittleEndianNbt"
      [] self = "LittleEndianNbt" -> "LittleEndianHeaderNbt"
      [] self = "LittleEndianHeaderNbt" -> "Snbt"
      [] self = "Snbt" -> "Nbt"
      [] self = "Mca" -> "Mca"

\* rev_cycle with the arm of Snbt short-circuiting the little-endian variants
rev_cycle_skip(self) ==
    CASE self = "Nbt" -> "Snbt"
      [] self = "Gzip" -> "Nbt"
      [] self = "Zlib" -> "Gzip"
      [] self = "LittleEndianNbt" -> "Zlib"
      [] self = "LittleEndianHeaderNbt" -> "LittleEndianNbt"
      [] self = "Snbt" -> "Zlib"
      [] self = "Mca" -> "Mca"

rev_cycle(self) ==
    CASE self = "Nbt" -> "Snbt"
      [] self = "Gzip" -> "Nbt"
      [] self = "Zlib" -> "Gzip"
      [] self = "LittleEndianNbt" -> "Zlib"
      [] self = "LittleEndianHeaderNbt" -> "LittleEndianNbt"
      [] self = "Snbt" -> "LittleEndianHeaderNbt"
      [] self = "Mca" -> "Mca"

-----------------------------------------------------------------------------
(* enum NbtElement, as far as the formats tell its variants apart. A byte  *)
(* string is a sequence of numbers 0..255; a name is a byte string.        *)

NbtByte(v) == [tag |-> "Byte", v |-> v]
NbtShort(v) == [tag |-> "Short", v |-> v]
NbtCompound(entries) == [tag |-> "Compound", entries |-> entries]
NbtList(items) == [tag |-> "List", items |-> items]
NbtChunk(format, nbt) == [format |-> format, nbt |-> nbt]
NbtRegion(chunks) == [tag |-> "Region", chunks |-> chunks]

is_compound(nbt) == nbt.tag = "Compound"
is_list(nbt) == nbt.tag = "List"
is_region(nbt) == nbt.tag = "Region"

\* the tag ids of the binary grammar
TagId(tag) ==
    CASE tag = "Byte" -> 1
      [] tag = "Short" -> 2
      [] tag = "List" -> 9
      [] tag = "Compound" -> 10

RECURSIVE Sum(_)
Sum(bytes) == IF bytes = <<>> THEN 0 ELSE bytes[1] + Sum(Tail(bytes))

-----------------------------------------------------------------------------
(* The binary tag codec, big-endian and little-endian. *)

u16(n, le) == IF le THEN <<n % 256, n \div 256>> ELSE <<n \div 256, n % 256>>

u32(n, le) ==
    LET b0 == n % 256
        b1 == (n \div 256) % 256
        b2 == (n \div 65536) % 256
        b3 == (n \div 16777216) % 256
    IN  IF le THEN <<b0, b1, b2, b3>> ELSE <<b3, b2, b1, b0>>

rd16(bytes, pos, le) ==
    IF le THEN bytes[pos] + 256 * bytes[pos + 1] ELSE 256 * bytes[pos] + bytes[pos + 1]

rd32(bytes, pos, le) ==
    IF le
    THEN bytes[pos] + 256 * bytes[pos + 1] + 65536 * bytes[pos + 2] + 16777216 * bytes[pos + 3]
    ELSE 16777216 * bytes[pos] + 65536 * bytes[pos + 1] + 256 * bytes[pos + 2] + bytes[pos + 3]

RECURSIVE to_bytes(_, _), entries_to_bytes(_, _), items_to_bytes(_, _)

\* the payload of an element
to_bytes(nbt, le) ==
    CASE nbt.tag = "Byte" -> <<nbt.v>>
      [] nbt.tag = "Short" -> u16(nbt.v, le)
      [] nbt.tag = "Compound" -> entries_to_bytes(nbt.entries, le) \o <<0>>
      [] nbt.tag = "List" ->
            <<IF nbt.items = <<>> THEN 0 ELSE TagId(nbt.items[1].tag)>>
            \o u32(Len(nbt.items), le) \o items_to_bytes(nbt.items, le)

entries_to_bytes(entries, le) ==
    IF entries = <<>> THEN <<>>
    ELSE LET e == entries[1]
         IN  <<TagId(e.value.tag)>> \o u16(Len(e.name), le) \o e.name
             \o to_bytes(e.value, le) \o entries_to_bytes(Tail(entries), le)

items_to_bytes(items, le) ==
    IF items = <<>> THEN <<>>
    ELSE to_bytes(items[1], le) \o items_to_bytes(Tail(items), le)

\* what a decoder returns: the value read and the position after it
Read(val, pos) == [ok |-> TRUE, val |-> val, pos |-> pos]
NoRead == [ok |-> FALSE, val |-> <<>>, pos |-> 0]

RECURSIVE from_bytes(_, _, _, _), entries_from_bytes(_, _, _, _),
          items_from_bytes(_, _, _, _, _, _)

\* the element of tag `id` whose payload starts at bytes[pos]
from_bytes(id, bytes, pos, le) ==
    CASE id = 1 ->
            IF pos <= Len(bytes) THEN Read(NbtByte(bytes[pos]), pos + 1) ELSE NoRead
      [] id = 2 ->
            IF pos + 1 <= Len(bytes)
            THEN Read(NbtShort(rd16(bytes, pos, le)), pos + 2) ELSE NoRead
      [] id = 10 ->
            LET r == entries_from_bytes(bytes, pos, le, <<>>)
            IN  IF r.ok THEN Read(NbtCompound(r.val), r.pos) ELSE NoRead
      [] id = 9 ->
            IF pos + 4 <= Len(bytes)
            THEN LET r == items_from_bytes(bytes[pos], rd32(bytes, pos + 1, le),
                                           bytes, pos + 5, le, <<>>)
                 IN  IF r.ok THEN Read(NbtList(r.val), r.pos) ELSE NoRead
            ELSE NoRead
      [] OTHER -> NoRead

entries_from_bytes(bytes, pos, le, acc) ==
    IF pos > Len(bytes) THEN NoRead
    ELSE IF bytes[pos] = 0 THEN Read(acc, pos + 1)
    ELSE IF pos + 2 > Len(bytes) THEN NoRead
    ELSE LET n == rd16(bytes, pos + 1, le)
         IN  IF pos + 2 + n > Len(bytes) THEN NoRead
             ELSE LET r == from_bytes(bytes[pos], bytes, pos + 3 + n, le)
                  IN  IF ~r.ok THEN NoRead
                      ELSE entries_from_bytes(bytes, r.pos, le,
                               Append(acc, [name |-> SubSeq(bytes, pos + 3, pos + 2 + n),
                                            value |-> r.val]))

items_from_bytes(id, n, bytes, pos, le, acc) ==
    IF n = 0 THEN Read(acc, pos)
    ELSE LET r == from_bytes(id, bytes, pos, le)
         IN  IF ~r.ok THEN NoRead
             ELSE items_from_bytes(id, n - 1, bytes, r.pos, le, Append(acc, r.val))

\* the root of a file: its tag id (a compound's or a list's), its name
\* (skipped), its payload
root_from_bytes(bytes, le) ==
    IF Len(bytes) < 3 \/ bytes[1] \notin {9, 10} THEN NoRead
    ELSE from_bytes(bytes[1], bytes, 4 + rd16(bytes, 2, le), le)

\* NbtElement::from_be_file
from_be_file(bytes) ==
    LET r == root_from_bytes(bytes, FALSE)
    IN  IF r.ok THEN Ok(r.val) ELSE Err("parse")

\* the header of a little-endian file: a version and the length of the rest
LeHeaderVersion == <<8, 0, 0, 0>>

le_header(rest) == LeHeaderVersion \o u32(Len(rest), TRUE)

has_le_header(bytes) ==
    /\ Len(bytes) >= 8
    /\ SubSeq(bytes, 1, 4) = LeHeaderVersion
    /\ rd32(bytes, 5, TRUE) = Len(bytes) - 8

\* NbtElement::from_le_file: the element, and whether a header was found
from_le_file(bytes) ==
    LET header == has_le_header(bytes)
        r == root_from_bytes(IF header THEN SubSeq(bytes, 9, Len(bytes)) ELSE bytes, TRUE)
    IN  IF r.ok THEN Ok([nbt |-> r.val, header |-> header]) ELSE Err("parse")

-----------------------------------------------------------------------------
(* The compression envelopes (flate2 to write, zune_inflate to read): the  *)
(* magic number, the data, a check value of the data. The data is stored   *)
(* as it is: no claim depends on the compression ratio.                    *)

crc(data) == (Sum(data) + 7) % 256
adler(data) == (Sum(data) + 1) % 251

gzip_compress(data) == <<31, 139, 8>> \o data \o <<crc(data), Len(data) % 256>>

decode_gzip(bytes) ==
    LET n == Len(bytes)
    IN  IF n >= 5 /\ SubSeq(bytes, 1, 3) = <<31, 139, 8>>
        THEN LET data == SubSeq(bytes, 4, n - 2)
             IN  IF bytes[n - 1] = crc(data) /\ bytes[n] = Len(data) % 256
                 THEN Ok(data) ELSE Err("gzip")
        ELSE Err("gzip")

\* Compression::best() writes the header 78 DA
zlib_compress(data) == <<120, 218>> \o data \o <<adler(data)>>

decode_zlib(bytes) ==
    LET n == Len(bytes)
    IN  IF n >= 3 /\ bytes[1] % 16 = 8 /\ (256 * bytes[1] + bytes[2]) % 31 = 0
        THEN LET data == SubSeq(bytes, 3, n - 1)
             IN  IF bytes[n] = adler(data) THEN Ok(data) ELSE Err("zlib")
        ELSE Err("zlib")

\* lz4_flex::compress: a block without a frame, here one run of literals
lz4_compress(data) == <<16 * Len(data)>> \o data

lz4_decompress(bytes) ==
    IF Len(bytes) >= 1 /\ bytes[1] = 16 * (Len(bytes) - 1)
    THEN Ok(SubSeq(bytes, 2, Len(bytes))) ELSE Err("lz4")

-----------------------------------------------------------------------------
(* enum ChunkFileFormat and the region container: a table of RegionSlots   *)
(* positions (0: no chunk), then for each chunk its length, the id of its  *)
(* compression and its data.                                               *)

ChunkFileFormat == {"Gzip", "Zlib", "Nbt", "Lz4"}

RegionSlots == 2

RECURSIVE to_be_file(_)

ChunkFileFormat_encode(self, data) ==
    CASE self = "Nbt" -> to_be_file(data)
      [] self = "Gzip" -> gzip_compress(to_be_file(data))
      [] self = "Zlib" -> zlib_compress(to_be_file(data))
      [] self = "Lz4" -> lz4_compress(to_be_file(data))

CompressionId(format) ==
    CASE format = "Gzip" -> 1
      [] format = "Zlib" -> 2
      [] format = "Nbt" -> 3
      [] format = "Lz4" -> 4

chunk_record(chunk) ==
    LET data == ChunkFileFormat_encode(chunk.format, chunk.nbt)
    IN  <<Len(data) + 1, CompressionId(chunk.format)>> \o data

RECURSIVE region_records(_, _, _)
\* [table, body]: the positions and the records of chunks[i..]
region_records(chunks, i, at) ==
    IF i > Len(chunks) THEN [table |-> <<>>, body |-> <<>>]
    ELSE IF ~chunks[i].some
    THEN LET rest == region_records(chunks, i + 1, at)
         IN  [table |-> <<0>> \o rest.table, body |-> rest.body]
    ELSE LET rec == chunk_record(chunks[i].val)
             rest == region_records(chunks, i + 1, at + Len(rec))
         IN  [table |-> <<at>> \o rest.table, body |-> rec \o rest.body]

region_to_bytes(region) ==
    LET r == region_records(region.chunks, 1, RegionSlots + 1)
    IN  r.table \o r.body

\* NbtElement::to_be_file
to_be_file(nbt) ==
    IF is_region(nbt) THEN region_to_bytes(nbt)
    ELSE <<TagId(nbt.tag), 0, 0>> \o to_bytes(nbt, FALSE)

\* NbtElement::to_le_file
to_le_file(nbt, header) ==
    LET bytes == IF is_region(nbt) THEN region_to_bytes(nbt)
                 ELSE <<TagId(nbt.tag), 0, 0>> \o to_bytes(nbt, TRUE)
    IN  IF header THEN le_header(bytes) \o bytes ELSE bytes

chunk_decompress(id, data) ==
    CASE id = 1 -> decode_gzip(data)
      [] id = 2 -> decode_zlib(data)
      [] id = 3 -> Ok(data)
      [] id = 4 -> lz4_decompress(data)
      [] OTHER -> Err("chunk")

ChunkFormatOfId(id) == CHOOSE f \in ChunkFileFormat : CompressionId(f) = id

\* the chunk of slot i: Ok(None), Ok(Some(chunk)) or Err
chunk_from_bytes(bytes, i) ==
    LET at == bytes[i]
    IN  IF at = 0 THEN Ok(None)
        ELSE IF at <= RegionSlots \/ at + 1 > Len(bytes) THEN Err("chunk")
        ELSE LET n == bytes[at]
             IN  IF n < 1 \/ at + n > Len(bytes) THEN Err("chunk")
                 ELSE LET data == chunk_decompress(bytes[at + 1],
                                                    SubSeq(bytes, at + 2, at + n))
                          nbt == IF data.ok THEN from_be_file(data.val) ELSE data
                      IN  IF nbt.ok /\ is_compound(nbt.val)
                          THEN Ok(Some(NbtChunk(ChunkFormatOfId(bytes[at + 1]), nbt.val)))
                          ELSE Err("chunk")

\* NbtElement::from_be_mca
from_be_mca(bytes) ==
    IF Len(bytes) < RegionSlots THEN Err("region")
    ELSE LET chunks == [i \in 1..RegionSlots |-> chunk_from_bytes(bytes, i)]
         IN  IF \A i \in 1..RegionSlots : chunks[i].ok
             THEN Ok(NbtRegion([i \in 1..RegionSlots |-> chunks[i].val]))
             ELSE Err("region")

-----------------------------------------------------------------------------
(* The text codec (SNBT), in ASCII: {name:value,...}, [value,...], a byte  *)
(* as digits and "b", a short as digits and "s".                           *)

RECURSIVE digits(_)
digits(n) == IF n < 10 THEN <<48 + n>> ELSE digits(n \div 10) \o <<48 + (n % 10)>>

RECURSIVE to_string(_), entries_to_string(_), items_to_string(_)

\* NbtElement's Display
to_string(nbt) ==
    CASE nbt.tag = "Byte" -> digits(nbt.v) \o <<98>>
      [] nbt.tag = "Short" -> digits(nbt.v) \o <<115>>
      [] nbt.tag = "Compound" -> <<123>> \o entries_to_string(nbt.entries) \o <<125>>
      [] nbt.tag = "List" -> <<91>> \o items_to_string(nbt.items) \o <<93>>
      [] nbt.tag = "Region" ->
            <<91>> \o items_to_string(
                [i \in 1..Len(nbt.chunks) |->
                    IF nbt.chunks[i].some THEN nbt.chunks[i].val.nbt
                    ELSE NbtCompound(<<>>)]) \o <<93>>

entries_to_string(entries) ==
    IF entries = <<>> THEN <<>>
    ELSE entries[1].name \o <<58>> \o to_string(entries[1].value)
         \o (IF Len(entries) > 1 THEN <<44>> ELSE <<>>)
         \o entries_to_string(Tail(entries))

items_to_string(items) ==
    IF items = <<>> THEN <<>>
    ELSE to_string(items[1]) \o (IF Len(items) > 1 THEN <<44>> ELSE <<>>)
         \o items_to_string(Tail(items))

IsDigit(b) == b >= 48 /\ b <= 57
IsLetter(b) == b >= 97 /\ b <= 122

RECURSIVE number_from_str(_, _, _), name_from_str(_, _, _)

\* the digits from s[pos] on, as a number
number_from_str(s, pos, acc) ==
    IF pos <= Len(s) /\ IsDigit(s[pos])
    THEN number_from_str(s, pos + 1, 10 * acc + (s[pos] - 48))
    ELSE Read(acc, pos)

name_from_str(s, pos, acc) ==
    IF pos <= Len(s) /\ IsLetter(s[pos])
    THEN name_from_str(s, pos + 1, Append(acc, s[pos]))
    ELSE Read(acc, pos)

RECURSIVE value_from_str(_, _), entries_from_str(_, _, _), items_from_str(_, _, _)

value_from_str(s, pos) ==
    IF pos > Len(s) THEN NoRead
    ELSE IF s[pos] = 123 THEN
        IF pos + 1 <= Len(s) /\ s[pos + 1] = 125 THEN Read(NbtCompound(<<>>), pos + 2)
        ELSE LET r == entries_from_str(s, pos + 1, <<>>)
             IN  IF r.ok THEN Read(NbtCompound(r.val), r.pos) ELSE NoRead
    ELSE IF s[pos] = 91 THEN
        IF pos + 1 <= Len(s) /\ s[pos + 1] = 93 THEN Read(NbtList(<<>>), pos + 2)
        ELSE LET r == items_from_str(s, pos + 1, <<>>)
             IN  IF r.ok THEN Read(NbtList(r.val), r.pos) ELSE NoRead
    ELSE IF IsDigit(s[pos]) THEN
        LET n == number_from_str(s, pos, 0)
        IN  IF n.pos > Len(s) THEN NoRead
            ELSE IF s[n.pos] = 98 /\ n.val < 256 THEN Read(NbtByte(n.val), n.pos + 1)
            ELSE IF s[n.pos] = 115 /\ n.val < 65536 THEN Read(NbtShort(n.val), n.pos + 1)
            ELSE NoRead
    ELSE NoRead

entries_from_str(s, pos, acc) ==
    LET name == name_from_str(s, pos, <<>>)
    IN  IF name.val = <<>> \/ name.pos > Len(s) \/ s[name.pos] # 58 THEN NoRead
        ELSE LET r == value_from_str(s, name.pos + 1)
                 got == Append(acc, [name |-> name.val, value |-> r.val])
             IN  IF ~r.ok \/ r.pos > Len(s) THEN NoRead
                 ELSE IF s[r.pos] = 125 THEN Read(got, r.pos + 1)
                 ELSE IF s[r.pos] = 44 THEN entries_from_str(s, r.pos + 1, got)
                 ELSE NoRead

items_from_str(s, pos, acc) ==
    LET r == value_from_str(s, pos)
        got == Append(acc, r.val)
    IN  IF ~r.ok \/ r.pos > Len(s) THEN NoRead
        ELSE IF acc # <<>> /\ acc[1].tag # r.val.tag THEN NoRead
        ELSE IF s[r.pos] = 93 THEN Read(got, r.pos + 1)
        ELSE IF s[r.pos] = 44 THEN items_from_str(s, r.pos + 1, got)
        ELSE NoRead

\* NbtElement::from_str: the whole text is one value
from_str(s) ==
    LET r == value_from_str(s, 1)
    IN  IF r.ok /\ r.pos = Len(s) + 1 THEN Some(r.val) ELSE None

RECURSIVE utf8_valid(_, _)
\* core::str::from_utf8 accepts the bytes from pos on
utf8_valid(buf, pos) ==
    IF pos > Len(buf) THEN TRUE
    ELSE LET b == buf[pos]
             n == IF b < 128 THEN 0
                  ELSE IF b >= 194 /\ b <= 223 THEN 1
                  ELSE IF b >= 224 /\ b <= 239 THEN 2
                  ELSE IF b >= 240 /\ b <= 244 THEN 3
                  ELSE 4
         IN  /\ n < 4
             /\ pos + n <= Len(buf)
             /\ \A i \in 1..n : buf[pos + i] >= 128 /\ buf[pos + i] <= 191
             /\ utf8_valid(buf, pos + n + 1)

from_utf8(buf) == IF utf8_valid(buf, 1) THEN Ok(buf) ELSE Err("utf8")

-----------------------------------------------------------------------------
(* NbtFileFormat::encode *)

\* encode with the arm of Zlib copied to Gzip
encode_gzip_as_zlib(self, data) ==
    CASE self \in {"Nbt", "Mca"} -> to_be_file(data)
      [] self = "Gzip" -> zlib_compress(to_be_file(data))
      [] self = "Zlib" -> zlib_compress(to_be_file(data))
      [] self = "Snbt" -> to_string(data)
      [] self \in {"LittleEndianNbt", "LittleEndianHeaderNbt"} ->
            to_le_file(data, self = "LittleEndianHeaderNbt")

encode(self, data) ==
    CASE self \in {"Nbt", "Mca"} -> to_be_file(data)
      [] self = "Gzip" -> gzip_compress(to_be_file(data))
      [] self = "Zlib" -> zlib_compress(to_be_file(data))
      [] self = "Snbt" -> to_string(data)
      [] self \in {"LittleEndianNbt", "LittleEndianHeaderNbt"} ->
            to_le_file(data, self = "LittleEndianHeaderNbt")

-----------------------------------------------------------------------------
(* std::path::Path as FilePath uses it. A path is [abs, comps]: whether it *)
(* starts at the root, and its components; a component is a sequence of    *)
(* characters, and the parent component is <<"..">>. The character "\xFF"  *)
(* stands for a byte that is not valid Unicode.                            *)

DotDot == <<"..">>

\* Path::file_name: the last component, unless the path ends in "..", or is
\* empty or the bare root.
file_name(path) ==
    IF path.comps = <<>> THEN None
    ELSE LET last == path.comps[Len(path.comps)]
         IN  IF last = DotDot THEN None ELSE Some(last)

\* OsStr::to_string_lossy: an invalid byte becomes U+FFFD.
lossy_char(c) == IF c = "\\xFF" THEN "\\uFFFD" ELSE c

os_to_string_lossy(s) == [i \in 1..Len(s) |-> lossy_char(s[i])]

\* OsStr::to_str: None when a byte is not valid Unicode.
os_to_str(s) == IF \E i \in 1..Len(s) : s[i] = "\\xFF" THEN None ELSE Some(s)

RECURSIVE join_comps(_)
join_comps(comps) ==
    IF comps = <<>> THEN <<>>
    ELSE IF Len(comps) = 1 THEN os_to_string_lossy(comps[1])
    ELSE os_to_string_lossy(comps[1]) \o <<"/">> \o join_comps(Tail(comps))

\* Path::to_string_lossy
path_to_string_lossy(path) ==
    (IF path.abs THEN <<"/">> ELSE <<>>) \o join_comps(path.comps)

\* Path::extension: the part of the file name after its last ".", None when
\* there is no file name, no ".", or the only "." is the first character.
extension(path) ==
    LET fname == file_name(path)
    IN  IF ~fname.some THEN None
        ELSE LET n == fname.val
                 dots == {i \in 1..Len(n) : n[i] = "."}
             IN  IF dots = {} THEN None
                 ELSE LET d == CHOOSE i \in dots : \A j \in dots : j <= i
                      IN  IF d = 1 THEN None
                          ELSE Some(SubSeq(n, d + 1, Len(n)))

-----------------------------------------------------------------------------
(* Tab::parse_raw. What it returns is [result, attempts, run]: the Result  *)
(* of the function, and the decoders it called, in the order of the calls. *)
(* An extension is one character here: "mca", "mcr", "nbt", ...            *)

Parsed(nbt, format) == Ok([nbt |-> nbt, format |-> format])
Failed(context, path) ==
    Err([context |-> context,
         file |-> IF file_name(path).some THEN os_to_string_lossy(file_name(path).val)
                  ELSE <<>>])
Returned(result, attempts) == [result |-> result, attempts |-> attempts, run |-> TRUE]

\* the extension test that forgets "mcr"
is_region_extension_mca_only(path) ==
    LET ext == extension(path)
    IN  ext.some /\ os_to_str(ext.val) = Some(<<"mca">>)

\* path.extension().and_then(OsStr::to_str) is Some("mca" | "mcr")
is_region_extension(path) ==
    LET ext == extension(path)
    IN  ext.some /\ os_to_str(ext.val) \in {Some(<<"mca">>), Some(<<"mcr">>)}

\* buf.first_chunk::<2>().copied().map(u16::from_be_bytes)
first_chunk_u16(buf) == IF Len(buf) >= 2 THEN Some(256 * buf[1] + buf[2]) ELSE None

\* the gzip test reading the two bytes with u16::from_le_bytes
is_gzip_magic_le_bytes(buf) ==
    Len(buf) >= 2 /\ buf[1] + 256 * buf[2] = 8075

is_gzip_magic(buf) == first_chunk_u16(buf) = Some(8075)

\* the zlib test that knows only the header of the default compression
is_zlib_magic_default_only(buf) == first_chunk_u16(buf) = Some(30876)

is_zlib_magic(buf) == first_chunk_u16(buf) \in {Some(30721), Some(30876), Some(30938)}

parse_mca(path, buf) ==
    LET r == from_be_mca(buf)
    IN  Returned(IF r.ok THEN Parsed(r.val, "Mca") ELSE Failed("Failed to parse MCA file", path),
                 <<"from_be_mca">>)

parse_gzip(path, buf) ==
    LET data == decode_gzip(buf)
        r == from_be_file(data.val)
    IN  IF ~data.ok
        THEN Returned(Failed("Failed to decode gzip compressed NBT", path), <<"decode_gzip">>)
        ELSE Returned(IF r.ok THEN Parsed(r.val, "Gzip") ELSE Failed("Failed to parse NBT", path),
                      <<"decode_gzip", "from_be_file">>)

parse_zlib(path, buf) ==
    LET data == decode_zlib(buf)
        r == from_be_file(data.val)
    IN  IF ~data.ok
        THEN Returned(Failed("Failed to decode zlib compressed NBT", path), <<"decode_zlib">>)
        ELSE Returned(IF r.ok THEN Parsed(r.val, "Zlib") ELSE Failed("Failed to parse NBT", path),
                      <<"decode_zlib", "from_be_file">>)

\* the fallback chain trying the little-endian decode before the big-endian one
parse_uncompressed_le_first(path, buf) ==
    LET be == from_be_file(buf)
        le == from_le_file(buf)
        text == from_utf8(buf)
        nbt == from_str(text.val)
    IN  IF le.ok
        THEN Returned(Parsed(le.val.nbt, IF le.val.header THEN "LittleEndianHeaderNbt"
                                         ELSE "LittleEndianNbt"),
                      <<"from_le_file">>)
        ELSE IF be.ok
        THEN Returned(Parsed(be.val, "Nbt"), <<"from_le_file", "from_be_file">>)
        ELSE IF ~text.ok
        THEN Returned(Failed("Failed to find file type for file", path),
                      <<"from_le_file", "from_be_file", "from_utf8">>)
        ELSE Returned(IF nbt.some THEN Parsed(nbt.val, "Snbt")
                      ELSE Failed("Failed to find file type for file", path),
                      <<"from_le_file", "from_be_file", "from_utf8", "from_str">>)

\* the last three branches: big-endian, little-endian, text
parse_uncompressed(path, buf) ==
    LET be == from_be_file(buf)
        le == from_le_file(buf)
        text == from_utf8(buf)
        nbt == from_str(text.val)
    IN  IF be.ok
        THEN Returned(Parsed(be.val, "Nbt"), <<"from_be_file">>)
        ELSE IF le.ok
        THEN Returned(Parsed(le.val.nbt, IF le.val.header THEN "LittleEndianHeaderNbt"
                                         ELSE "LittleEndianNbt"),
                      <<"from_be_file", "from_le_file">>)
        ELSE IF ~text.ok
        THEN Returned(Failed("Failed to find file type for file", path),
                      <<"from_be_file", "from_le_file", "from_utf8">>)
        ELSE Returned(IF nbt.some THEN Parsed(nbt.val, "Snbt")
                      ELSE Failed("Failed to find file type for file", path),
                      <<"from_be_file", "from_le_file", "from_utf8", "from_str">>)

parse_raw(path, buf) ==
    IF is_region_extension(path) THEN parse_mca(path, buf)
    ELSE IF is_gzip_magic(buf) THEN parse_gzip(path, buf)
    ELSE IF is_zlib_magic(buf) THEN parse_zlib(path, buf)
    ELSE parse_uncompressed(path, buf)

-----------------------------------------------------------------------------
(* struct FilePath *)

NoFilePath == [path |-> [abs |-> FALSE, comps |-> <<>>],
               cached_name |-> <<>>, cached_path_str |-> <<>>, built |-> FALSE]

PathHasNoName(path) == [kind |-> "PathHasNoName", path |-> path]

name_for_path(path) ==
    LET fname == file_name(path)
    IN  IF fname.some THEN Some(os_to_string_lossy(fname.val)) ELSE None

\* FilePath::new: [result, self]
FilePath_new(path) ==
    LET name == name_for_path(path)
    IN  IF ~name.some THEN Err(PathHasNoName(path))
        ELSE Ok([path |-> path,
                 cached_name |-> name.val,
                 cached_path_str |-> path_to_string_lossy(path),
                 built |-> TRUE])

\* set_path storing the string form before the name is looked up
set_path_str_first(self, path) ==
    LET name == name_for_path(path)
    IN  IF ~name.some
        THEN [self |-> [self EXCEPT !.cached_path_str = path_to_string_lossy(path)],
              result |-> Err(PathHasNoName(path))]
        ELSE [self |-> [self EXCEPT !.cached_name = name.val,
                                    !.cached_path_str = path_to_string_lossy(path),
                                    !.path = path],
              result |-> Ok(self.path)]

\* set_path storing the path and its string form, but not the name
set_path_stale_name(self, path) ==
    LET name == name_for_path(path)
    IN  IF ~name.some
        THEN [self |-> self, result |-> Err(PathHasNoName(path))]
        ELSE [self |-> [self EXCEPT !.cached_path_str = path_to_string_lossy(path),
                                    !.path = path],
              result |-> Ok(self.path)]

\* FilePath::set_path: [self, result]. The `?` on name_for_path returns
\* before the first assignment.
set_path(self, path) ==
    LET name == name_for_path(path)
    IN  IF ~name.some
        THEN [self |-> self, result |-> Err(PathHasNoName(path))]
        ELSE [self |-> [self EXCEPT !.cached_name = name.val,
                                    !.cached_path_str = path_to_string_lossy(path),
                                    !.path = path],
              result |-> Ok(self.path)]

FilePath_path(self) == self.path
FilePath_path_str(self) == self.cached_path_str
FilePath_name(self) == self.cached_name

-----------------------------------------------------------------------------
(* HistoryMananger, as far as Tab reads it: the number of actions and      *)
(* whether there are changes since the last save.                          *)

HistoryMananger_new == [actions |-> 0, unsaved |-> FALSE]
history_append(self) == [actions |-> self.actions + 1, unsaved |-> TRUE]
history_on_save(self) == [self EXCEPT !.unsaved = FALSE]
has_unsaved_changes(self) == self.unsaved

-----------------------------------------------------------------------------
(* struct Tab. selected_text and subscription are Options, of which only   *)
(* Some or None is kept; last_close_attempt is "epoch" (UNIX_EPOCH) or     *)
(* "set" (a Timestamp::now() of an earlier call).                          *)

NewTabPath == [abs |-> FALSE, comps |-> <<<<"new", ".", "nbt">>>>]

Tab(nbt, path, format) ==
    [root |-> nbt, path |-> path, format |-> format,
     history |-> HistoryMananger_new,
     bookmarks |-> {}, subscription |-> FALSE, selected_text |-> FALSE,
     scroll |-> 0, last_close_attempt |-> "epoch"]

\* Tab::new
Tab_new(nbt, path, format) ==
    IF is_compound(nbt) \/ is_list(nbt) THEN Ok(Tab(nbt, path, format))
    ELSE Err("Parsed NBT was not a Compound or List")

\* NbtRegion::default(): no chunk
NbtRegion_default == NbtRegion([i \in 1..RegionSlots |-> None])

\* Tab::new_empty_tab
new_empty_tab(region) ==
    Tab(IF region THEN NbtRegion_default ELSE NbtCompound(<<>>),
        FilePath_new(NewTabPath).val,
        IF region THEN "Nbt" ELSE "Mca")

\* std::fs::write: the write succeeds or fails as the file system decides
\* (io_ok); the call itself looks at no part of the path
fs_write(path, io_ok) ==
    IF io_ok THEN Ok(path) ELSE Err("io")

Event(ev, arg) == [ev |-> ev, arg |-> arg]

Called(op, self, result, events) ==
    [tab |-> self, call |-> [op |-> op, result |-> result, events |-> events]]

\* Tab::save_selected_text: [self, result, events]. `text` is what saving
\* the selected text comes to: "error", "none" (no action) or "action".
save_selected_text(self, text) ==
    IF ~self.selected_text \/ text = "none"
    THEN [self |-> self, ok |-> TRUE]
    ELSE IF text = "error" THEN [self |-> self, ok |-> FALSE]
    ELSE [self |-> [self EXCEPT !.history = history_append(self.history)], ok |-> TRUE]

\* Tab::save from its std::fs::write on, without a dialog: `w` is what the
\* write returns
save_in_place(t, bytes, w, e1) ==
    IF ~w.ok
    THEN Called("save", t, Err("io"),
                e1 \o <<Event("write", [path |-> t.path.path, bytes |-> bytes, ok |-> FALSE])>>)
    ELSE Called("save", [t EXCEPT !.history = history_on_save(t.history)], Ok("saved"),
                e1 \o <<Event("write", [path |-> t.path.path, bytes |-> bytes, ok |-> TRUE]),
                        Event("on_save", TRUE)>>)

\* Tab::save from its std::fs::write on, to the path the dialog returned:
\* `w` is what the write returns, `sp` what set_path does after it
save_as(t, path, bytes, w, sp, e1) ==
    IF ~w.ok
    THEN Called("save", t, Err("io"),
                e1 \o <<Event("dialog", Some(path)),
                        Event("write", [path |-> path, bytes |-> bytes, ok |-> FALSE])>>)
    ELSE IF ~sp.result.ok
    THEN Called("save", [t EXCEPT !.path = sp.self], Err("PathHasNoName"),
                e1 \o <<Event("dialog", Some(path)),
                        Event("write", [path |-> path, bytes |-> bytes, ok |-> TRUE]),
                        Event("set_path", FALSE)>>)
    ELSE Called("save", [t EXCEPT !.path = sp.self, !.history = history_on_save(t.history)],
                Ok("saved"),
                e1 \o <<Event("dialog", Some(path)),
                        Event("write", [path |-> path, bytes |-> bytes, ok |-> TRUE]),
                        Event("set_path", TRUE), Event("on_save", TRUE)>>)

\* Tab::save after save_selected_text has returned s1
save_after_text(s1, force_dialog, dialog, io_ok) ==
    IF ~s1.ok
    THEN Called("save", s1.self, Err("SaveSelectedTextError"),
                <<Event("save_selected_text", FALSE)>>)
    ELSE IF ~force_dialog
    THEN save_in_place(s1.self, encode(s1.self.format, s1.self.root),
                       fs_write(s1.self.path.path, io_ok),
                       <<Event("save_selected_text", TRUE)>>)
    ELSE IF ~dialog.some
    THEN Called("save", s1.self, Ok("cancelled"),
                <<Event("save_selected_text", TRUE), Event("dialog", None)>>)
    ELSE save_as(s1.self, dialog.val, encode(s1.self.format, s1.self.root),
                 fs_write(dialog.val, io_ok), set_path(s1.self.path, dialog.val),
                 <<Event("save_selected_text", TRUE)>>)

\* Tab::save: [tab, call]. `dialog` is what the file dialog returns: Some
\* (path), or None when it is cancelled or fails.
save(self, force_dialog, text, dialog, io_ok) ==
    save_after_text(save_selected_text(self, text), force_dialog, dialog, io_ok)

\* the guard of Tab::refresh: [self, skip]. `late` says whether more than
\* TAB_CLOSE_DOUBLE_CLICK_INTERVAL has passed since a last_close_attempt
\* that is not UNIX_EPOCH.
refresh_guard(self, late) ==
    IF has_unsaved_changes(self.history)
    THEN [self |-> [self EXCEPT !.last_close_attempt = "set"],
          skip |-> self.last_close_attempt = "epoch" \/ late]
    ELSE [self |-> self, skip |-> FALSE]

\* Tab::refresh clearing the view before it has read the file
refresh_clear_first(self, late, read) ==
    LET g == refresh_guard(self, late)
        t == [g.self EXCEPT !.bookmarks = {}, !.scroll = 0]
        parsed == parse_raw(t.path.path, read.val)
    IN  IF g.skip THEN Called("refresh", g.self, Ok("skipped"), <<>>)
        ELSE IF ~read.ok
        THEN Called("refresh", t, Err("io"), <<Event("clear", TRUE), Event("read", FALSE)>>)
        ELSE IF ~parsed.result.ok
        THEN Called("refresh", t, Err(parsed.result.err),
                    <<Event("clear", TRUE), Event("read", TRUE), Event("parse_raw", FALSE)>>)
        ELSE Called("refresh",
                    [t EXCEPT !.format = parsed.result.val.format,
                              !.history = HistoryMananger_new,
                              !.selected_text = FALSE,
                              !.subscription = FALSE,
                              !.last_close_attempt = "epoch",
                              !.root = parsed.result.val.nbt],
                    Ok("reloaded"),
                    <<Event("clear", TRUE), Event("read", TRUE), Event("parse_raw", TRUE),
                      Event("set_format", parsed.result.val.format),
                      Event("replace_history", TRUE),
                      Event("replace_root", parsed.result.val.nbt),
                      Event("drop_on_separate_thread",
                            [root |-> t.root, history |-> t.history])>>)

\* Tab::refresh once parse_raw has returned Ok((value, format))
refresh_install(t, value, format) ==
    Called("refresh",
           [t EXCEPT !.bookmarks = {},
                     !.scroll = 0,
                     !.format = format,
                     !.history = HistoryMananger_new,
                     !.selected_text = FALSE,
                     !.subscription = FALSE,
                     !.last_close_attempt = "epoch",
                     !.root = value],
           Ok("reloaded"),
           <<Event("read", TRUE), Event("parse_raw", TRUE),
             Event("clear_bookmarks", TRUE), Event("reset_scroll", TRUE),
             Event("set_format", format),
             Event("replace_history", TRUE),
             Event("clear_selected_text", TRUE), Event("clear_subscription", TRUE),
             Event("reset_last_close_attempt", TRUE),
             Event("replace_root", value),
             Event("drop_on_separate_thread", [root |-> t.root, history |-> t.history])>>)

\* Tab::refresh once parse_raw has returned
refresh_parsed(t, result) ==
    IF ~result.ok
    THEN Called("refresh", t, Err(result.err), <<Event("read", TRUE), Event("parse_raw", FALSE)>>)
    ELSE refresh_install(t, result.val.nbt, result.val.format)

\* Tab::refresh past its guard
refresh_read(g, read) ==
    IF g.skip THEN Called("refresh", g.self, Ok("skipped"), <<>>)
    ELSE IF ~read.ok THEN Called("refresh", g.self, Err("io"), <<Event("read", FALSE)>>)
    ELSE refresh_parsed(g.self, parse_raw(g.self.path.path, read.val).result)

\* Tab::refresh: [tab, call]. `read` is what std::fs::read returns.
refresh(self, late, read) == refresh_read(refresh_guard(self, late), read)

-----------------------------------------------------------------------------
(* The state of a machine while another one runs. *)

FormatIdle == fstart = "Nbt" /\ fcur = "Nbt" /\ fops = <<>> /\ fseen = <<>>

PathIdle ==
    /\ fp = NoFilePath
    /\ fpcall = [op |-> "none", result |-> Ok(NoFilePath.path)]

NotRun == [result |-> Err("not run"), attempts |-> <<>>, run |-> FALSE]

ParseIdle ==
    /\ pin = [path |-> NoFilePath.path, buf |-> <<>>]
    /\ pout = NotRun

CodecIdle ==
    /\ cdoc = NbtCompound(<<>>)
    /\ cfmt = "Nbt"
    /\ cbytes = None
    /\ cdec = None

TabIdle ==
    /\ tab = new_empty_tab(FALSE)
    /\ call = [op |-> "none", result |-> Ok("none"), events |-> <<>>]

-----------------------------------------------------------------------------
(* The documents and the files of the model. A root holds up to MaxEntries *)
(* children; a child is a scalar or a compound or list of at most one      *)
(* scalar.                                                                 *)

MaxEntries == 2

Names == {<<97>>, <<98>>}

Scalars == {NbtByte(1), NbtShort(258)}

Children ==
    Scalars \cup {NbtCompound(<<>>), NbtList(<<>>),
                  NbtCompound(<<[name |-> <<97>>, value |-> NbtByte(1)]>>),
                  NbtList(<<NbtShort(258)>>)}

Compounds ==
    {NbtCompound(es) :
        es \in {s \in SeqsUpTo([name : Names, value : Children], MaxEntries) :
                    \A i, j \in 1..Len(s) : i # j => s[i].name # s[j].name}}

Lists ==
    {NbtList(items) :
        items \in {s \in SeqsUpTo(Children, MaxEntries) :
                       \A i \in 1..Len(s) : s[i].tag = s[1].tag}}

\* the documents a tab may hold: the root is a compound or a list
RootDocs == Compounds \cup Lists

ChunkDocs == {NbtCompound(<<>>), NbtCompound(<<[name |-> <<97>>, value |-> NbtShort(258)]>>)}

Chunks == {None} \cup {Some(NbtChunk(f, d)) : f \in ChunkFileFormat, d \in ChunkDocs}

Regions == {NbtRegion(c) : c \in [1..RegionSlots -> Chunks]}

\* files written by the editor, in every format
WrittenFiles ==
    {encode(f, d) : f \in NbtFileFormat, d \in RootDocs \cup Scalars}
    \cup {to_be_file(r) : r \in Regions}

\* files the editor did not write: cut short, with a damaged check value,
\* with another valid zlib header, or a valid stream around something else
DamagedFiles ==
    {SubSeq(b, 1, Len(b) - 1) : b \in {w \in WrittenFiles : Len(w) > 0}}
    \cup {<<31, 139>> \o b : b \in {<<>>, <<8, 10, 0, 0, 0, 0, 0>>}}
    \cup {<<120, h>> \o to_be_file(d) \o <<adler(to_be_file(d))>> :
              h \in {1, 156, 94}, d \in {NbtCompound(<<>>), NbtList(<<>>)}}
    \cup {gzip_compress(b) : b \in {<<>>, <<123, 125>>, to_le_file(NbtList(<<>>), TRUE)}}
    \cup {zlib_compress(b) : b \in {<<>>, <<123, 125>>}}
    \cup {<<>>, <<255>>, <<31>>, <<194, 128>>}

Files == WrittenFiles \cup DamagedFiles

FileNames ==
    {<<"a", ".", "nbt">>, <<"r", ".", "mca">>, <<"r", ".", "mcr">>, <<".", "mca">>,
     <<"r", ".", "MCA">>, <<"x">>, <<"\\xFF", ".", "mca">>, <<"a", ".", "\\xFF">>}

FilePaths == {[abs |-> FALSE, comps |-> <<n>>] : n \in FileNames}

-----------------------------------------------------------------------------
(* Spec: a tab is opened (empty, or from a file by parse_raw and Tab::new) *)
(* and then edited, saved, reloaded and given another format, in any       *)
(* order.                                                                  *)

MaxHistory == 1

TabFiles ==
    {encode("Gzip", NbtCompound(<<[name |-> <<97>>, value |-> NbtByte(1)]>>)),
     to_string(NbtByte(1)),
     to_be_file(NbtRegion([i \in 1..RegionSlots |->
                   IF i = 1 THEN Some(NbtChunk("Zlib", NbtCompound(<<>>))) ELSE None])),
     <<31, 139, 0>>}

TabPaths ==
    {[abs |-> FALSE, comps |-> <<<<"a", ".", "nbt">>>>],
     [abs |-> FALSE, comps |-> <<<<"r", ".", "mca">>>>]}

\* what the file dialog may return: a file, a parent directory
DialogPaths ==
    {[abs |-> FALSE, comps |-> <<<<"r", ".", "mca">>>>],
     [abs |-> FALSE, comps |-> <<<<"d">>, DotDot>>]}

BookmarkLines == {1}
ScrollPositions == {0, 48}

Opened(path, buf) ==
    LET parsed == parse_raw(path, buf)
    IN  IF parsed.result.ok
        THEN Tab_new(parsed.result.val.nbt, FilePath_new(path).val, parsed.result.val.format)
        ELSE Err("parse_raw")

TabInit ==
    /\ tab \in {new_empty_tab(region) : region \in BOOLEAN}
               \cup {o.val : o \in {r \in {Opened(pb[1], pb[2]) : pb \in TabPaths \X TabFiles} : r.ok}}
    /\ call = [op |-> "open", result |-> Ok("opened"), events |-> <<>>]

Others == <<fmtVars, pathVars, parseVars, codecVars>>

\* the record of a call that is no method of Tab in this file
Did(op) == [op |-> "other", result |-> Ok("done"), events |-> <<>>]

\* An input that the call does not read is not varied.
Refresh ==
    /\ \E late \in BOOLEAN, read \in {Err("io")} \cup {Ok(buf) : buf \in TabFiles} :
        /\ late => has_unsaved_changes(tab.history) /\ tab.last_close_attempt = "set"
        /\ refresh_guard(tab, late).skip => read = Err("io")
        /\ LET r == refresh(tab, late, read)
           IN  tab' = r.tab /\ call' = r.call
    /\ UNCHANGED Others

Save ==
    /\ \E force_dialog \in BOOLEAN, text \in {"error", "none", "action"},
          dialog \in {None} \cup {Some(path) : path \in DialogPaths}, io_ok \in BOOLEAN :
        /\ text = "action" => tab.history.actions < MaxHistory
        /\ text # "none" => tab.selected_text
        /\ dialog.some => force_dialog /\ text # "error"
        /\ ~io_ok => text # "error" /\ (force_dialog => dialog.some)
        /\ LET r == save(tab, force_dialog, text, dialog, io_ok)
           IN  tab' = r.tab /\ call' = r.call
    /\ UNCHANGED Others

\* the editor's "change the save format" command, forwards and backwards
CycleTabFormat ==
    /\ tab' = [tab EXCEPT !.format = cycle(tab.format)]
    /\ call' = Did("cycle")
    /\ UNCHANGED Others

RevCycleTabFormat ==
    /\ tab' = [tab EXCEPT !.format = rev_cycle(tab.format)]
    /\ call' = Did("rev_cycle")
    /\ UNCHANGED Others

\* an edit of the document: the entries of a compound root are replaced
EditRoot ==
    /\ tab.history.actions < MaxHistory
    /\ is_compound(tab.root)
    /\ tab' = [tab EXCEPT !.root = NbtCompound(<<[name |-> <<98>>, value |-> NbtByte(2)]>>),
                          !.history = history_append(tab.history)]
    /\ call' = Did("edit")
    /\ UNCHANGED Others

ToggleBookmark ==
    /\ \E line \in BookmarkLines :
        tab' = [tab EXCEPT !.bookmarks = IF line \in tab.bookmarks
                                         THEN tab.bookmarks \ {line}
                                         ELSE tab.bookmarks \cup {line}]
    /\ call' = Did("bookmark")
    /\ UNCHANGED Others

Scroll ==
    /\ \E pos \in ScrollPositions \ {tab.scroll} : tab' = [tab EXCEPT !.scroll = pos]
    /\ call' = Did("scroll")
    /\ UNCHANGED Others

SelectText ==
    /\ ~tab.selected_text
    /\ tab' = [tab EXCEPT !.selected_text = TRUE]
    /\ call' = Did("select")
    /\ UNCHANGED Others

Next ==
    \/ Refresh
    \/ Save
    \/ CycleTabFormat
    \/ RevCycleTabFormat
    \/ EditRoot
    \/ ToggleBookmark
    \/ Scroll
    \/ SelectText

Init == TabInit /\ FormatIdle /\ PathIdle /\ ParseIdle /\ CodecIdle

Spec == Init /\ [][Next]_vars

-----------------------------------------------------------------------------
(* SpecParse: Tab::parse_raw is called on a file of the model.             *)

ParseInit ==
    /\ pin \in [path : FilePaths, buf : Files]
    /\ pout = NotRun

ParseRaw ==
    /\ ~pout.run
    /\ pout' = parse_raw(pin.path, pin.buf)
    /\ UNCHANGED pin
    /\ UNCHANGED <<fmtVars, pathVars, codecVars, tabVars>>

ParseNext == ParseRaw

InitParse == ParseInit /\ FormatIdle /\ PathIdle /\ CodecIdle /\ TabIdle

SpecParse == InitParse /\ [][ParseNext]_vars

-----------------------------------------------------------------------------
(* SpecCodec: a document is saved in a format (NbtFileFormat::encode) and  *)
(* the bytes are loaded with the branch of parse_raw that returns that     *)
(* format.                                                                 *)

\* the branch of parse_raw that returns `format`, as a decoder of documents
decoder_of(format, buf) ==
    LET path == [abs |-> FALSE, comps |-> <<IF format = "Mca" THEN <<"r", ".", "mca">>
                                           ELSE <<"a", ".", "nbt">>>>]
        le == from_le_file(buf)
        r == CASE format = "Mca" -> parse_mca(path, buf).result
               [] format = "Gzip" -> parse_gzip(path, buf).result
               [] format = "Zlib" -> parse_zlib(path, buf).result
               [] format = "Nbt" -> from_be_file(buf)
               [] format \in {"LittleEndianNbt", "LittleEndianHeaderNbt"} ->
                     IF le.ok THEN Ok(le.val.nbt) ELSE le
               [] format = "Snbt" ->
                     IF from_utf8(buf).ok /\ from_str(buf).some
                     THEN Ok(from_str(buf).val) ELSE Err("text")
    IN  IF r.ok THEN Ok(IF format \in {"Mca", "Gzip", "Zlib"} THEN r.val.nbt ELSE r.val)
        ELSE Err("decode")

CodecInit ==
    /\ cdoc \in RootDocs
    /\ cfmt \in NbtFileFormat
    /\ cbytes = None
    /\ cdec = None

Encode ==
    /\ ~cbytes.some
    /\ cbytes' = Some(encode(cfmt, cdoc))
    /\ UNCHANGED <<cdoc, cfmt, cdec>>
    /\ UNCHANGED <<fmtVars, pathVars, parseVars, tabVars>>

Decode ==
    /\ cbytes.some /\ ~cdec.some
    /\ cdec' = Some(decoder_of(cfmt, cbytes.val))
    /\ UNCHANGED <<cdoc, cfmt, cbytes>>
    /\ UNCHANGED <<fmtVars, pathVars, parseVars, tabVars>>

CodecNext == Encode \/ Decode

InitCodec == CodecInit /\ FormatIdle /\ PathIdle /\ ParseIdle /\ TabIdle

SpecCodec == InitCodec /\ [][CodecNext]_vars

-----------------------------------------------------------------------------
(* SpecPath: a FilePath is built by FilePath::new and then changed by any  *)
(* sequence of set_path calls, with paths of up to MaxPathDepth components.*)

MaxPathDepth == 2

PathComponents == {<<"a", ".", "nbt">>, <<"\\xFF">>, DotDot}

Paths == {[abs |-> a, comps |-> c] : a \in BOOLEAN, c \in SeqsUpTo(PathComponents, MaxPathDepth)}

PathInit == PathIdle

NewFilePath ==
    /\ ~fp.built
    /\ \E path \in Paths :
        LET r == FilePath_new(path)
        IN  /\ fp' = IF r.ok THEN r.val ELSE fp
            /\ fpcall' = [op |-> "new",
                          result |-> IF r.ok THEN Ok(path) ELSE r]
    /\ UNCHANGED <<fmtVars, parseVars, codecVars, tabVars>>

SetPath ==
    /\ fp.built
    /\ \E path \in Paths :
        LET r == set_path(fp, path)
        IN  /\ fp' = r.self
            /\ fpcall' = [op |-> "set_path", result |-> r.result]
    /\ UNCHANGED <<fmtVars, parseVars, codecVars, tabVars>>

PathNext == NewFilePath \/ SetPath

InitPath == PathInit /\ FormatIdle /\ ParseIdle /\ CodecIdle /\ TabIdle

SpecPath == InitPath /\ [][PathNext]_vars

\* C7: set_path is atomic. A set_path call that finds no file name in the
\* new path returns PathHasNoName and leaves path(), name() and path_str()
\* as they were; a call that succeeds returns the previous path, and
\* path(), name() and path_str() are the new path, its file name and its
\* string form.
C7_SetPathAtomic ==
    [][fpcall'.op = "set_path" /\ fp.built =>
        IF fpcall'.result.ok
        THEN /\ fpcall'.result.val = FilePath_path(fp)
             /\ file_name(FilePath_path(fp')).some
             /\ FilePath_name(fp') = os_to_string_lossy(file_name(FilePath_path(fp')).val)
             /\ FilePath_path_str(fp') = path_to_string_lossy(FilePath_path(fp'))
        ELSE /\ fpcall'.result.err.kind = "PathHasNoName"
             /\ ~file_name(fpcall'.result.err.path).some
             /\ FilePath_path(fp') = FilePath_path(fp)
             /\ FilePath_name(fp') = FilePath_name(fp)
             /\ FilePath_path_str(fp') = FilePath_path_str(fp)]_vars

\* C7 witness: a set_path call with a path ending in ".." has failed on a
\* FilePath that holds a name.
C7_Witness ==
    /\ fpcall.op = "set_path"
    /\ ~fpcall.result.ok
    /\ fpcall.result.err.path.comps # <<>>
    /\ fp.built
    /\ FilePath_name(fp) = <<"a", ".", "nbt">>

\* C12: the cache invariant of FilePath. FilePath::new returns
\* PathHasNoName, and builds nothing, exactly for a path without a file
\* name; and every FilePath built by new and changed by set_path calls,
\* failed ones among them, holds a path with a file name, name() is that
\* file name and path_str() is the path, both in their (lossy) string form.
C12_CacheInvariant ==
    /\ fpcall.op = "new" =>
          IF fpcall.result.ok
          THEN fp.built /\ file_name(fpcall.result.val).some
          ELSE /\ ~fp.built
               /\ fpcall.result.err.kind = "PathHasNoName"
               /\ ~file_name(fpcall.result.err.path).some
    /\ fp.built =>
          /\ file_name(FilePath_path(fp)).some
          /\ FilePath_name(fp) = os_to_string_lossy(file_name(FilePath_path(fp)).val)
          /\ FilePath_path_str(fp) = path_to_string_lossy(FilePath_path(fp))

\* C12 witness: a set_path call has failed on a FilePath of two components
\* whose file name holds a byte that is no valid Unicode.
C12_Witness ==
    /\ fp.built
    /\ fpcall.op = "set_path"
    /\ ~fpcall.result.ok
    /\ Len(FilePath_path(fp).comps) = 2
    /\ file_name(FilePath_path(fp)) = Some(<<"\\xFF">>)
    /\ FilePath_name(fp) = <<"\\uFFFD">>

-----------------------------------------------------------------------------
(* SpecFormat: every variant is a start; cycle and rev_cycle are applied   *)
(* in any order, up to MaxCycleSteps times.                                *)

MaxCycleSteps == 7

FormatInit ==
    /\ fstart \in NbtFileFormat
    /\ fcur = fstart
    /\ fops = <<>>
    /\ fseen = <<>>

CycleFormat ==
    /\ Len(fops) < MaxCycleSteps
    /\ fcur' = cycle(fcur)
    /\ fops' = Append(fops, "cycle")
    /\ fseen' = Append(fseen, fcur)
    /\ UNCHANGED fstart
    /\ UNCHANGED <<pathVars, parseVars, codecVars, tabVars>>

RevCycleFormat ==
    /\ Len(fops) < MaxCycleSteps
    /\ fcur' = rev_cycle(fcur)
    /\ fops' = Append(fops, "rev_cycle")
    /\ fseen' = Append(fseen, fcur)
    /\ UNCHANGED fstart
    /\ UNCHANGED <<pathVars, parseVars, codecVars, tabVars>>

FormatNext == CycleFormat \/ RevCycleFormat

InitFormat == FormatInit /\ PathIdle /\ ParseIdle /\ CodecIdle /\ TabIdle

SpecFormat == InitFormat /\ [][FormatNext]_vars

-----------------------------------------------------------------------------
(* SpecChunkFormat: the format of a chunk. Every variant is a start; cycle *)
(* and rev_cycle are applied, and the format is set to the default, in any *)
(* order, up to MaxCycleSteps times.                                       *)

\* #[default]
ChunkFileFormat_default == "Zlib"

\* cycle passing over Lz4
ChunkFileFormat_cycle_skip_lz4(self) ==
    CASE self = "Gzip" -> "Zlib"
      [] self = "Zlib" -> "Nbt"
      [] self = "Nbt" -> "Gzip"
      [] self = "Lz4" -> "Gzip"

\* ChunkFileFormat::cycle
ChunkFileFormat_cycle(self) ==
    CASE self = "Gzip" -> "Zlib"
      [] self = "Zlib" -> "Nbt"
      [] self = "Nbt" -> "Lz4"
      [] self = "Lz4" -> "Gzip"

\* ChunkFileFormat::rev_cycle
ChunkFileFormat_rev_cycle(self) ==
    CASE self = "Gzip" -> "Lz4"
      [] self = "Zlib" -> "Gzip"
      [] self = "Nbt" -> "Zlib"
      [] self = "Lz4" -> "Nbt"

ChunkFormatInit ==
    /\ fstart \in ChunkFileFormat
    /\ fcur = fstart
    /\ fops = <<>>
    /\ fseen = <<>>

CycleChunkFormat ==
    /\ Len(fops) < MaxCycleSteps
    /\ fcur' = ChunkFileFormat_cycle(fcur)
    /\ fops' = Append(fops, "cycle")
    /\ fseen' = Append(fseen, fcur)
    /\ UNCHANGED fstart
    /\ UNCHANGED <<pathVars, parseVars, codecVars, tabVars>>

RevCycleChunkFormat ==
    /\ Len(fops) < MaxCycleSteps
    /\ fcur' = ChunkFileFormat_rev_cycle(fcur)
    /\ fops' = Append(fops, "rev_cycle")
    /\ fseen' = Append(fseen, fcur)
    /\ UNCHANGED fstart
    /\ UNCHANGED <<pathVars, parseVars, codecVars, tabVars>>

\* ChunkFileFormat::default()
DefaultChunkFormat ==
    /\ Len(fops) < MaxCycleSteps
    /\ fcur' = ChunkFileFormat_default
    /\ fops' = Append(fops, "default")
    /\ fseen' = Append(fseen, fcur)
    /\ UNCHANGED fstart
    /\ UNCHANGED <<pathVars, parseVars, codecVars, tabVars>>

ChunkFormatNext == CycleChunkFormat \/ RevCycleChunkFormat \/ DefaultChunkFormat

InitChunkFormat == ChunkFormatInit /\ PathIdle /\ ParseIdle /\ CodecIdle /\ TabIdle

SpecChunkFormat == InitChunkFormat /\ [][ChunkFormatNext]_vars

-----------------------------------------------------------------------------
(* C1 .. C4: the detection order of Tab::parse_raw, under SpecParse        *)

\* the conditions of the claims, in the claims' words
HasRegionExtension(path) ==
    extension(path) \in {Some(<<"mca">>), Some(<<"mcr">>)}

StartsWith(buf, b1, b2) == Len(buf) >= 2 /\ buf[1] = b1 /\ buf[2] = b2

HasGzipMagic(buf) == StartsWith(buf, 31, 139)

HasZlibMagic(buf) ==
    StartsWith(buf, 120, 1) \/ StartsWith(buf, 120, 156) \/ StartsWith(buf, 120, 218)

Attempted(decoder) == \E i \in 1..Len(pout.attempts) : pout.attempts[i] = decoder

\* C1: magic-number precedence. On a buffer that starts with 1F 8B, or with
\* 78 01, 78 9C or 78 DA, under a path whose extension is not mca or mcr,
\* parse_raw calls the decompressor of that magic number first and
\* from_be_file only on what it decompressed; it calls neither from_le_file
\* nor the text decoders; if the decompression or the inner decode fails it
\* returns an error, and otherwise the format is Gzip (for 1F 8B) or Zlib.
C1_MagicPrecedence ==
    pout.run /\ ~HasRegionExtension(pin.path)
             /\ (HasGzipMagic(pin.buf) \/ HasZlibMagic(pin.buf)) =>
        LET gz == HasGzipMagic(pin.buf)
            data == IF gz THEN decode_gzip(pin.buf) ELSE decode_zlib(pin.buf)
            first == IF gz THEN "decode_gzip" ELSE "decode_zlib"
        IN  /\ pout.attempts = IF data.ok THEN <<first, "from_be_file">> ELSE <<first>>
            /\ ~Attempted("from_le_file") /\ ~Attempted("from_utf8") /\ ~Attempted("from_str")
            /\ IF data.ok /\ from_be_file(data.val).ok
               THEN pout.result = Parsed(from_be_file(data.val).val,
                                         IF gz THEN "Gzip" ELSE "Zlib")
               ELSE ~pout.result.ok
            /\ pout.result.ok =>
                  pout.result.val.format \notin
                      {"Nbt", "LittleEndianNbt", "LittleEndianHeaderNbt", "Snbt"}

\* C1 witness: a gzip stream whose content is SNBT text ("{}") was refused,
\* after the inner big-endian decode failed.
C1_Witness ==
    /\ pout.run
    /\ pin.buf = gzip_compress(<<123, 125>>)
    /\ ~HasRegionExtension(pin.path)
    /\ pout.attempts = <<"decode_gzip", "from_be_file">>
    /\ ~pout.result.ok

\* C2: extension precedence. Under a path whose extension is mca or mcr,
\* parse_raw calls from_be_mca and no other decoder, whatever the buffer
\* starts with; it returns an error if from_be_mca fails, and the region
\* with the format Mca if it succeeds.
C2_ExtensionPrecedence ==
    pout.run /\ HasRegionExtension(pin.path) =>
        /\ pout.attempts = <<"from_be_mca">>
        /\ IF from_be_mca(pin.buf).ok
           THEN pout.result = Parsed(from_be_mca(pin.buf).val, "Mca")
           ELSE ~pout.result.ok

\* C2 witness: under r.mcr, a valid gzip stream of a compound was refused
\* after from_be_mca alone was called.
C2_Witness ==
    /\ pout.run
    /\ pin.path.comps = <<<<"r", ".", "mcr">>>>
    /\ pin.buf = encode("Gzip", NbtCompound(<<>>))
    /\ pout.attempts = <<"from_be_mca">>
    /\ ~pout.result.ok

UsedFallback == pout.run /\ ~HasRegionExtension(pin.path)
                         /\ ~HasGzipMagic(pin.buf) /\ ~HasZlibMagic(pin.buf)

\* C3: root-shape rejection. When parse_raw reaches the fallback steps
\* (big-endian, little-endian, text) and returns Ok, the root of the
\* document it returns is a compound or a list.
C3_RootShapeRejection ==
    UsedFallback /\ pout.result.ok =>
        is_compound(pout.result.val.nbt) \/ is_list(pout.result.val.nbt)

\* C4: ordered fallback. With neither a region extension nor a gzip or zlib
\* magic number, parse_raw returns what the first succeeding step returns,
\* in the order from_be_file (Nbt), from_le_file (LittleEndianHeaderNbt if
\* it reports a header, LittleEndianNbt if not), UTF-8 and from_str (Snbt);
\* it calls a step only after every earlier one has failed; and it returns
\* an error, which names the file, exactly when all three fail.
C4_OrderedFallback ==
    UsedFallback =>
        LET be == from_be_file(pin.buf)
            le == from_le_file(pin.buf)
            utf8 == from_utf8(pin.buf)
            text == IF utf8.ok THEN from_str(utf8.val) ELSE None
        IN  /\ pout.attempts[1] = "from_be_file"
            /\ Attempted("from_le_file") <=> ~be.ok
            /\ Attempted("from_utf8") <=> ~be.ok /\ ~le.ok
            /\ Attempted("from_str") <=> ~be.ok /\ ~le.ok /\ utf8.ok
            /\ be.ok => pout.result = Parsed(be.val, "Nbt")
            /\ ~be.ok /\ le.ok =>
                  pout.result = Parsed(le.val.nbt,
                                       IF le.val.header THEN "LittleEndianHeaderNbt"
                                       ELSE "LittleEndianNbt")
            /\ ~be.ok /\ ~le.ok /\ text.some => pout.result = Parsed(text.val, "Snbt")
            /\ ~pout.result.ok <=> ~be.ok /\ ~le.ok /\ ~text.some
            /\ ~pout.result.ok =>
                  pout.result.err.file = os_to_string_lossy(file_name(pin.path).val)

\* C4 witness: a little-endian file with a header was returned as
\* LittleEndianHeaderNbt after the big-endian decode had failed.
C4_Witness ==
    /\ UsedFallback
    /\ pout.attempts = <<"from_be_file", "from_le_file">>
    /\ pout.result.ok
    /\ pout.result.val.format = "LittleEndianHeaderNbt"
    /\ is_list(pout.result.val.nbt)

-----------------------------------------------------------------------------
(* C5: the round trip of a document, under SpecCodec                       *)

\* C5 as claimed: for every format but Snbt, the decoder of the format
\* returns the document that was encoded.
C5_RoundTripEveryFormat ==
    cdec.some /\ cfmt # "Snbt" => cdec.val = Ok(cdoc)

\* C5 as amended: for every format but Snbt and Mca, the decoder of the
\* format returns the document that was encoded.
C5_RoundTrip ==
    cdec.some /\ cfmt \notin {"Snbt", "Mca"} => cdec.val = Ok(cdoc)

\* C5 witness: a list of two compounds went through LittleEndianHeaderNbt.
C5_Witness ==
    /\ cdec.some
    /\ cfmt = "LittleEndianHeaderNbt"
    /\ is_list(cdoc) /\ Len(cdoc.items) = 2 /\ is_compound(cdoc.items[1])
    /\ cdec.val = Ok(cdoc)

-----------------------------------------------------------------------------
(* C11: a gzip file keeps its format through load and save, under SpecParse *)

\* the buffer is a valid gzip stream of a big-endian compound
IsGzipOfCompound(buf) ==
    /\ decode_gzip(buf).ok
    /\ from_be_file(decode_gzip(buf).val).ok
    /\ is_compound(from_be_file(decode_gzip(buf).val).val)

GzipDoc(buf) == from_be_file(decode_gzip(buf).val).val

\* what C11 promises of a call that has returned for such a buffer: the
\* compound with the format Gzip; the compound encoded as Gzip starts with
\* 1F 8B; and parse_raw returns the same for the encoded bytes
GzipStable ==
    /\ pout.result = Parsed(GzipDoc(pin.buf), "Gzip")
    /\ StartsWith(encode("Gzip", GzipDoc(pin.buf)), 31, 139)
    /\ parse_raw(pin.path, encode("Gzip", GzipDoc(pin.buf))).result = pout.result

\* C11 as the specification states it: for a buffer that is a valid gzip
\* stream of a big-endian compound, whatever the path, parse_raw returns
\* the compound with the format Gzip, and the compound encoded as Gzip
\* starts with 1F 8B and is parsed as Gzip again.
C11_GzipStableAnyPath ==
    pout.run /\ IsGzipOfCompound(pin.buf) => GzipStable

\* C11 as amended: the same, for a path whose extension is neither mca nor
\* mcr.
C11_GzipStable ==
    pout.run /\ ~HasRegionExtension(pin.path) /\ IsGzipOfCompound(pin.buf) => GzipStable

\* C11 witness: the gzip stream of the compound {a:1b} was parsed under a
\* path without region extension and returned as Gzip.
C11_Witness ==
    /\ pout.run
    /\ ~HasRegionExtension(pin.path)
    /\ pin.buf = gzip_compress(to_be_file(NbtCompound(<<[name |-> <<97>>, value |-> NbtByte(1)]>>)))
    /\ pout.result.ok
    /\ pout.result.val.format = "Gzip"

-----------------------------------------------------------------------------
(* C6, C10: Tab::save and Tab::refresh, under Spec                         *)

\* the positions of the events `ev` in the record of the last call
EventsAt(c, ev) == {i \in 1..Len(c.events) : c.events[i].ev = ev}

\* the last call was a save whose dialog returned a path
SavedAs(c) ==
    /\ c.op = "save"
    /\ \E i \in EventsAt(c, "dialog") : c.events[i].arg.some

ChosenPath(c) == c.events[CHOOSE i \in EventsAt(c, "dialog") : TRUE].arg.val

\* C6 as the specification states it: in a save to a path the dialog has
\* returned, FilePath::set_path has validated the path before std::fs::write
\* is called with it, and for a path without a file name the save returns
\* an error and nothing has been written.
C6_ValidatedBeforeWrite ==
    SavedAs(call) =>
        /\ \A w \in EventsAt(call, "write") : \E v \in EventsAt(call, "set_path") : v < w
        /\ ~file_name(ChosenPath(call)).some =>
              /\ ~call.result.ok
              /\ \A w \in EventsAt(call, "write") : ~call.events[w].arg.ok

\* C10: reload is all or nothing. A refresh that returns an error (the read
\* or parse_raw failed) leaves root, format, history, bookmarks and scroll
\* as they were. A refresh that reloads installs the root and the format
\* that parse_raw returned for the file, resets the history, and hands the
\* root and the history it replaced to drop_on_separate_thread as its last
\* step, after the format and the root have been set.
C10_ReloadAllOrNothing ==
    [][call'.op = "refresh" =>
        /\ ~call'.result.ok =>
              /\ tab'.root = tab.root
              /\ tab'.format = tab.format
              /\ tab'.history = tab.history
              /\ tab'.bookmarks = tab.bookmarks
              /\ tab'.scroll = tab.scroll
              /\ EventsAt(call', "drop_on_separate_thread") = {}
        /\ call'.result = Ok("reloaded") =>
              /\ \E buf \in TabFiles :
                    parse_raw(tab.path.path, buf).result = Parsed(tab'.root, tab'.format)
              /\ tab'.history = HistoryMananger_new
              /\ LET last == Len(call'.events)
                 IN  /\ EventsAt(call', "drop_on_separate_thread") = {last}
                     /\ call'.events[last].arg = [root |-> tab.root, history |-> tab.history]
                     /\ \E f \in EventsAt(call', "set_format"), r \in EventsAt(call', "replace_root") :
                           /\ f < last /\ r < last
                           /\ call'.events[f].arg = tab'.format
                           /\ call'.events[r].arg = tab'.root
       ]_vars

\* C10 witness: a refresh has reloaded a tab that had unsaved changes; the
\* root it replaced, another one than the new root, went to the disposal.
C10_Witness ==
    /\ call.op = "refresh"
    /\ call.result = Ok("reloaded")
    /\ \E d \in EventsAt(call, "drop_on_separate_thread") :
          /\ call.events[d].arg.root # tab.root
          /\ has_unsaved_changes(call.events[d].arg.history)
    /\ tab.history = HistoryMananger_new

\* a refresh whose parse_raw failed has left a tab with a bookmark, a scroll
\* position and unsaved changes
C10_FailedRefreshReached ==
    /\ call.op = "refresh"
    /\ ~call.result.ok
    /\ EventsAt(call, "parse_raw") # {}
    /\ tab.bookmarks # {} /\ tab.scroll # 0
    /\ has_unsaved_changes(tab.history)

-----------------------------------------------------------------------------
(* C14: the format and the root of a tab, under Spec                       *)

\* C14: in every state of a tab (made by new_empty_tab or from a parsed
\* file, then reloaded, saved, edited and given other formats by cycle and
\* rev_cycle), the format is Mca if and only if the root is a region.
C14_FormatRootAgree ==
    (tab.format = "Mca") <=> is_region(tab.root)

-----------------------------------------------------------------------------
(* C8, C9: the rotation of NbtFileFormat, under SpecFormat                 *)

\* The fixed cyclic order of the six variants that take part in the rotation.
CycleOrder ==
    <<"Nbt", "Gzip", "Zlib", "LittleEndianNbt", "LittleEndianHeaderNbt", "Snbt">>

OrderIndex(f) == CHOOSE i \in 1..Len(CycleOrder) : CycleOrder[i] = f

OnlyOp(op) == \A i \in 1..Len(fops) : fops[i] = op

\* C8: cycle closure. Whatever variant f a walk has reached, the step
\* f.cycle() is undone by rev_cycle and the step f.rev_cycle() is undone by
\* cycle; and a step taken from Mca, in either direction, ends on Mca.
C8_CycleClosure ==
    Len(fops) > 0 =>
        LET prev == fseen[Len(fseen)]
            op == fops[Len(fops)]
        IN  /\ op = "cycle" => rev_cycle(fcur) = prev
            /\ op = "rev_cycle" => cycle(fcur) = prev
            /\ prev = "Mca" => fcur = "Mca"

\* C8 witness: after an earlier step, a cycle step was taken from
\* LittleEndianHeaderNbt to Snbt.
C8_Witness ==
    /\ Len(fops) > 1
    /\ fops[Len(fops)] = "cycle"
    /\ fseen[Len(fseen)] = "LittleEndianHeaderNbt"
    /\ fcur = "Snbt"

\* C9: the fixed cyclic order. A cycle step moves to the next variant of
\* CycleOrder (Snbt back to Nbt), a rev_cycle step to the previous one; a
\* walk of only cycle steps, or of only rev_cycle steps, from a variant
\* other than Mca is back at its start after exactly six steps and not
\* earlier, having passed through all six variants; Mca is never reached
\* from another variant, and never left.
C9_FixedOrder ==
    /\ Len(fops) > 0 /\ fseen[Len(fseen)] # "Mca" =>
        LET prev == fseen[Len(fseen)]
            op == fops[Len(fops)]
            i == OrderIndex(prev)
        IN  /\ op = "cycle" => fcur = CycleOrder[(i % 6) + 1]
            /\ op = "rev_cycle" => fcur = CycleOrder[((i + 4) % 6) + 1]
    /\ fstart # "Mca" /\ Len(fops) > 0 /\ (OnlyOp("cycle") \/ OnlyOp("rev_cycle")) =>
        /\ (fcur = fstart) <=> (Len(fops) % 6 = 0)
        /\ Len(fops) >= 6 =>
              {fseen[i] : i \in 1..6} = NbtFileFormat \ {"Mca"}
    /\ (fstart = "Mca") <=> (fcur = "Mca")

\* C9 witness: six cycle steps from Zlib are back at Zlib.
C9_Witness ==
    /\ fstart = "Zlib"
    /\ Len(fops) = 6
    /\ OnlyOp("cycle")
    /\ fcur = "Zlib"

-----------------------------------------------------------------------------
(* C13: the rotation of ChunkFileFormat, under SpecChunkFormat             *)

ChunkCycleOrder == <<"Gzip", "Zlib", "Nbt", "Lz4">>

ChunkOrderIndex(f) == CHOOSE i \in 1..Len(ChunkCycleOrder) : ChunkCycleOrder[i] = f

\* the last n steps were all `op`
LastOps(n, op) ==
    /\ Len(fops) >= n
    /\ \A i \in (Len(fops) - n + 1)..Len(fops) : fops[i] = op

\* C13: one 4-cycle. A cycle step moves Gzip to Zlib, Zlib to Nbt, Nbt to
\* Lz4 and Lz4 to Gzip; rev_cycle undoes a cycle step and cycle undoes a
\* rev_cycle step, from every variant; four cycle steps in a row are back
\* at the variant they left, and fewer are not; the default is Zlib.
C13_ChunkFourCycle ==
    /\ Len(fops) > 0 =>
        LET prev == fseen[Len(fseen)]
            op == fops[Len(fops)]
        IN  /\ op = "cycle" =>
                  /\ fcur = ChunkCycleOrder[(ChunkOrderIndex(prev) % 4) + 1]
                  /\ ChunkFileFormat_rev_cycle(fcur) = prev
            /\ op = "rev_cycle" =>
                  /\ fcur = ChunkCycleOrder[((ChunkOrderIndex(prev) + 2) % 4) + 1]
                  /\ ChunkFileFormat_cycle(fcur) = prev
            /\ op = "default" => fcur = "Zlib"
    /\ \A n \in 1..4 : LastOps(n, "cycle") =>
          ((fcur = fseen[Len(fseen) - n + 1]) <=> (n = 4))

\* C13 witness: four cycle steps from Lz4, taken after a rev_cycle step,
\* are back at Lz4.
C13_Witness ==
    /\ Len(fops) = 5
    /\ fops[1] = "rev_cycle"
    /\ LastOps(4, "cycle")
    /\ fseen[2] = "Lz4"
    /\ fcur = "Lz4"

====
